---- MODULE Spec2Model ----
(***************************************************************************)
(* ss_calc (src/calculator/__init__.py): the ASE calculator that turns the *)
(* per-slot pairwise forces of a neural-network potential into per-atom    *)
(* forces.  Arrays are functions over 0..n-1, as in the source; a 3-vector *)
(* is an array over 0..2.  Floating point numbers are modelled by integers *)
(* (sums are exact, so "within tolerance" reads "equal").                  *)
(***************************************************************************)
EXTENDS Integers, FiniteSets, Sequences, TLC

\* ------------------------------------------------------------------ bounds
MaxAtoms == 2
MaxCutoff == 2
MaxSlots == 4

\* --------------------------------------------------- parameters of the model
\* model.dscrptr.len_dscrptr: the length of one descriptor vector.
len_dscrptr == 1
\* model.dscrptr.type_unique: the species the network was built for.
model_type_unique == (0 :> 0) @@ (1 :> 1)
\* The neighbour index of a padded slot: it matches no atom index.
Pad == -1

VARIABLES
    big_sys,           \* self.big_sys
    num_cutoff,        \* model.dscrptr.num_cutoff
    types,             \* gen_fgpts: species label of every atom
    neigh_ind,         \* gen_fgpts: neigh_ind[0], shape (N, num_cutoff)
    fgpt,              \* gen_fgpts: fgpt[0], shape (N, num_cutoff, len_dscrptr)
    fgpt_deriv,        \* gen_fgpts: fgpt_deriv[0], (N, num_cutoff, 3, len_dscrptr)
    pc,                \* "ready" before calculate, "done" after it
    status,            \* "none", "ok", or "raised" (sess.run raised)
    type_argsort,      \* local of calculate
    type_argsort_inv,  \* local of calculate, fed to self.TAS_inv
    feed_dict,         \* the feed of sess.run: what each input list receives
    Neigh_ind,         \* graph tensor: the neighbour table in atom order
    F_ij,              \* graph tensor: per-slot forces in atom order
    f_self,            \* graph tensor: first term
    f_cross,           \* graph tensor: second term
    results            \* self.results

vars == <<big_sys, num_cutoff, types, neigh_ind, fgpt, fgpt_deriv, pc, status,
          type_argsort, type_argsort_inv, feed_dict, Neigh_ind, F_ij, f_self,
          f_cross, results>>

\* ------------------------------------------------------------ array helpers
Empty == [i \in {} |-> 0]

Len0(a) == Cardinality(DOMAIN a)

V3(x, y, z) == (0 :> x) @@ (1 :> y) @@ (2 :> z)

VZero == V3(0, 0, 0)

VAdd(u, v) == V3(u[0] + v[0], u[1] + v[1], u[2] + v[2])

VNeg(u) == V3(0 - u[0], 0 - u[1], 0 - u[2])

\* np.concatenate / tf.concat of two arrays along axis 0.
Concat0(a, b) ==
    LET la == Len0(a)
    IN  [i \in 0..(la + Len0(b) - 1) |-> IF i < la THEN a[i] ELSE b[i - la]]

RECURSIVE ConcatList(_, _)
\* tf.concat(list, axis=0) of the first m arrays of a list.
ConcatList(list, m) ==
    IF m = 0 THEN Empty ELSE Concat0(ConcatList(list, m - 1), list[m - 1])

\* The indices at which a boolean array is true, ascending.
Where(mask) ==
    LET idx == {i \in DOMAIN mask : mask[i]}
    IN  [r \in 0..(Cardinality(idx) - 1) |->
            CHOOSE i \in idx : Cardinality({i2 \in idx : i2 < i}) = r]

\* a[mask]: boolean indexing along axis 0.
BoolIndex(a, mask) == LET w == Where(mask) IN [r \in DOMAIN w |-> a[w[r]]]

\* tf.gather(params, indices) with every index in range.
Gather(params, indices) == [m \in DOMAIN indices |-> params[indices[m]]]

RECURSIVE SumInt(_, _)
\* Sum of the first m entries of an array of numbers.
SumInt(a, m) == IF m = 0 THEN 0 ELSE SumInt(a, m - 1) + a[m - 1]

RECURSIVE SumVec(_, _)
\* Sum of the first m entries of an array of 3-vectors.
SumVec(a, m) == IF m = 0 THEN VZero ELSE VAdd(SumVec(a, m - 1), a[m - 1])

\* tf.reduce_sum over an axis of 3-vectors.
ReduceSumVec(a) == SumVec(a, Len0(a))

\* np.unique(types): the distinct labels, ascending.
np_unique(t) ==
    LET S == {t[i] : i \in DOMAIN t}
    IN  [r \in 0..(Cardinality(S) - 1) |->
            CHOOSE s \in S : Cardinality({s2 \in S : s2 < s}) = r]

\* ---------------------------------------------- the network (build_nn)
\* One sub-network per species: a linear read-out of the fingerprint.
Weight == (0 :> 1) @@ (1 :> 2)

Bias == (0 :> 0) @@ (1 :> 1)

\* self.OL[spec]: the atomic energies of a batch, shape (n, 1).
OL(spec, X) ==
    [r \in DOMAIN X |-> [c \in 0..0 |-> Bias[spec] + Weight[spec] * SumInt(X[r], Len0(X[r]))]]

\* tf.gradients(self.OL[spec], self.X[spec])[0], shape (n, num_cutoff*len_dscrptr).
Gradients(spec, X) == [r \in DOMAIN X |-> [m \in DOMAIN X[r] |-> Weight[spec]]]

\* The value a species' input list entry takes in sess.run: the fed batch, or
\* an empty batch for an entry the feed does not name.
Placeholder(fed, spec) == IF spec \in DOMAIN fed THEN fed[spec] ELSE Empty

\* --------------------------------------------------------------- calculate
\* fgpt.reshape([len_atoms, len_fgpt])
ReshapeFgpt(fg, K) ==
    [a \in DOMAIN fg |->
        [m \in 0..(K * len_dscrptr - 1) |-> fg[a][m \div len_dscrptr][m % len_dscrptr]]]

\* np.arange(len_atoms)[types == spec]
AtomsOfSpec(t, spec) ==
    BoolIndex([i \in DOMAIN t |-> i], [i \in DOMAIN t |-> t[i] = spec])

RECURSIVE TypeArgsortUpTo(_, _, _)
\* type_argsort after the first m rounds of "for spec in type_unique".
TypeArgsortUpTo(t, tu, m) ==
    IF m = 0 THEN Empty
    ELSE Concat0(TypeArgsortUpTo(t, tu, m - 1), AtomsOfSpec(t, tu[m - 1]))

\* Mutant of TypeArgsort: the atoms in input order, not grouped by species.
TypeArgsort_Ungrouped(t) == [i \in DOMAIN t |-> i]

TypeArgsort(t) == LET tu == np_unique(t) IN TypeArgsortUpTo(t, tu, Len0(tu))

\* Mutant of TypeArgsortInv: the zeros, with the assignment lost.
TypeArgsortInv_Zeros(ta, n) == [i \in 0..(n - 1) |-> 0]

\* zeros(len_atoms), then type_argsort_inv[type_argsort] = arange(len_atoms).
TypeArgsortInv(ta, n) ==
    [i \in 0..(n - 1) |-> LET rs == {r \in DOMAIN ta : ta[r] = i}
            IN  IF rs = {} THEN 0 ELSE CHOOSE r \in rs : \A r2 \in rs : r2 <= r]

\* [arr[types == spec] for spec in type_unique]
Batches(arr, t) ==
    LET tu == np_unique(t)
    IN  [p \in DOMAIN tu |-> BoolIndex(arr, [i \in DOMAIN t |-> t[i] = tu[p]])]

\* zip(self.X, values): the p-th input of the list gets the p-th value.
Zip(values) ==
    LET m == IF Len0(values) < Len0(model_type_unique)
             THEN Len0(values) ELSE Len0(model_type_unique)
    IN  [p \in 0..(m - 1) |-> values[p]]

\* The feed_dict of sess.run.
FeedDict(t, ni, fg, fd, K, tas_inv) ==
    [X         |-> Zip(Batches(ReshapeFgpt(fg, K), t)),
     X_deriv   |-> Zip(Batches(fd, t)),
     Neigh_ind |-> Zip(Batches(ni, t)),
     TAS_inv   |-> tas_inv,
     DR        |-> 1]

\* ------------------------------------------------------- get_force_tensor
\* Neigh_ind = tf.gather(tf.concat(self.Neigh_ind, axis=0), self.TAS_inv)
NeighIndTensor(feed) ==
    LET S    == Len0(model_type_unique)
        list == [p \in 0..(S - 1) |-> Placeholder(feed.Neigh_ind, model_type_unique[p])]
    IN  Gather(ConcatList(list, S), feed.TAS_inv)

\* One species' F_ij: matmul of the reshaped X_deriv and gradient, reshaped
\* to (n, num_cutoff, 3).
FijOfSpec(spec, feed, K) ==
    LET X    == Placeholder(feed.X, spec)
        XD   == Placeholder(feed.X_deriv, spec)
        g    == Gradients(spec, X)
        n    == Len0(XD)
        \* reshape(X_deriv, [-1, 3, len_dscrptr])
        D    == [q \in 0..(n * K - 1) |-> XD[q \div K][q % K]]
        \* reshape(gradient, [-1, len_dscrptr, 1])
        G    == [q \in 0..(n * K - 1) |->
                    [l \in 0..(len_dscrptr - 1) |->
                        [z \in 0..0 |-> g[q \div K][(q % K) * len_dscrptr + l]]]]
        \* tf.matmul of the (3, len_dscrptr) and (len_dscrptr, 1) matrices
        M    == [q \in 0..(n * K - 1) |->
                    [c \in 0..2 |->
                        [z \in 0..0 |->
                            SumInt([l \in 0..(len_dscrptr - 1) |-> D[q][c][l] * G[q][l][0]],
                                   len_dscrptr)]]]
    IN  [r \in 0..(n - 1) |-> [k \in 0..(K - 1) |-> [c \in 0..2 |-> M[r * K + k][c][0]]]]

FijTensor(feed, K) ==
    LET S    == Len0(model_type_unique)
        list == [p \in 0..(S - 1) |-> FijOfSpec(model_type_unique[p], feed, K)]
    IN  Gather(ConcatList(list, S), feed.TAS_inv)

\* Mutant of FSelf: the sum without the sign.
FSelf_NoNegation(F) == [i \in DOMAIN F |-> ReduceSumVec(F[i])]

\* f_self = -tf.reduce_sum(F_ij, axis=1)
FSelf(F) == [i \in DOMAIN F |-> VNeg(ReduceSumVec(F[i]))]

\* tf.reshape(Neigh_ind, [-1])
Flat(NI, K) == [m \in 0..(Len0(NI) * K - 1) |-> NI[m \div K][m % K]]

\* tf.gather where an index may be out of range: the kernel that does not
\* raise stores zeros for such an index.
GatherZeroFill(params, indices, zero) ==
    [m \in DOMAIN indices |->
        IF indices[m] \in DOMAIN params THEN params[indices[m]] ELSE zero]

\* tf.ragged.boolean_mask(data, mask) over the two inner axes.
RaggedBooleanMask(data, mask) ==
    [i \in DOMAIN data |-> [r \in DOMAIN data[i] |-> BoolIndex(data[i][r], mask[i][r])]]

\* Mutant of ReduceSum21: the outer reduce_sum replaced by taking row 0.
ReduceSum21_InnerOnly(ragged) ==
    [i \in DOMAIN ragged |-> IF Len0(ragged[i]) = 0 THEN VZero ELSE ReduceSumVec(ragged[i][0])]

\* tf.reduce_sum(tf.reduce_sum(ragged, axis=2), axis=1)
ReduceSum21(ragged) ==
    [i \in DOMAIN ragged |->
        ReduceSumVec([r \in DOMAIN ragged[i] |-> ReduceSumVec(ragged[i][r])])]

\* Mutant of ABoolBig: the range reshaped along the slot axis, [1, K, 1].
ABoolBig_RangeOnSlotAxis(NI, K) ==
    LET g == GatherZeroFill(NI, Flat(NI, K), [k \in 0..(K - 1) |-> 0])
    IN  [i \in DOMAIN NI |-> [k \in 0..(K - 1) |-> [kp \in 0..(K - 1) |-> g[i * K + k][kp] = k]]]

\* big_sys: a_bool[i,k,k'] = (Neigh_ind[Neigh_ind[i,k], k'] == i)
ABoolBig(NI, K) ==
    LET g == GatherZeroFill(NI, Flat(NI, K), [k \in 0..(K - 1) |-> 0])
    IN  [i \in DOMAIN NI |-> [k \in 0..(K - 1) |-> [kp \in 0..(K - 1) |-> g[i * K + k][kp] = i]]]

\* Mutant of GatheredFij: the atom's own rows instead of its neighbours' rows.
GatheredFij_OwnRows(NI, F, K) ==
    [i \in DOMAIN NI |-> [k \in 0..(K - 1) |-> [kp \in 0..(K - 1) |-> F[i][kp]]]]

\* big_sys: F_ij gathered by the flattened neighbour table, (N, K, K, 3).
GatheredFij(NI, F, K) ==
    LET g == GatherZeroFill(F, Flat(NI, K), [k \in 0..(K - 1) |-> VZero])
    IN  [i \in DOMAIN NI |-> [k \in 0..(K - 1) |-> [kp \in 0..(K - 1) |-> g[i * K + k][kp]]]]

FCrossBig(NI, F, K) == ReduceSum21(RaggedBooleanMask(GatheredFij(NI, F, K), ABoolBig(NI, K)))

\* Mutant of ABoolSmall: the range reshaped along the second axis, [1, N, 1].
ABoolSmall_RangeOnAxis1(NI) ==
    LET n == Len0(NI)
    IN  [i \in 0..(n - 1) |-> [j \in 0..(n - 1) |-> [k \in DOMAIN NI[j] |-> NI[j][k] = j]]]

\* small system: a_bool[i,j,k] = (Neigh_ind[j,k] == i)
ABoolSmall(NI) ==
    LET n == Len0(NI)
    IN  [i \in 0..(n - 1) |-> [j \in 0..(n - 1) |-> [k \in DOMAIN NI[j] |-> NI[j][k] = i]]]

\* small system: F_ij tiled along a new leading axis, (N, N, K, 3).
TiledFij(F) == [i \in DOMAIN F |-> F]

FCrossSmall(NI, F) == ReduceSum21(RaggedBooleanMask(TiledFij(F), ABoolSmall(NI)))

FCross(NI, F, K, big) == IF big THEN FCrossBig(NI, F, K) ELSE FCrossSmall(NI, F)

\* tf.reshape(f_self + f_cross, [-1, 3])
AddTerms(fs, fc) == [i \in DOMAIN fs |-> VAdd(fs[i], fc[i])]

\* get_force_tensor: self.F evaluated on the fed tensors.
ForceTensor(NI, F, K, big) == AddTerms(FSelf(F), FCross(NI, F, K, big))

\* The big_sys gather is handed an index that is no row of its operand.
GatherOutOfRange(NI, K) ==
    LET fl == Flat(NI, K) IN \E m \in DOMAIN fl : fl[m] \notin DOMAIN NI

\* np.concatenate(atomic_energies_not_in_order, axis=0)[type_argsort_inv]
AtomicEnergies(feed) ==
    LET S    == Len0(model_type_unique)
        list == [p \in 0..(S - 1) |->
                    OL(model_type_unique[p], Placeholder(feed.X, model_type_unique[p]))]
    IN  Gather(ConcatList(list, S), feed.TAS_inv)

\* np.squeeze: every axis of length one is dropped.
Squeeze(a) ==
    LET rows == [i \in DOMAIN a |-> a[i][0]]
    IN  IF Len0(a) = 1 THEN rows[0] ELSE rows

\* np.sum over every entry of the (N, 1) array.
NpSum(a) == SumInt([i \in DOMAIN a |-> a[i][0]], Len0(a))

\* self.results for fed tensors and the forces sess.run returned.
SaveResults(feed, forces) ==
    LET ae == AtomicEnergies(feed)
    IN  [atomic_energies |-> Squeeze(ae), energy |-> NpSum(ae), forces |-> forces]

\* self.results after calculate on a configuration.
Results(t, ni, fg, fd, K, big) ==
    LET feed == FeedDict(t, ni, fg, fd, K, TypeArgsortInv(TypeArgsort(t), Len0(t)))
    IN  SaveResults(feed, ForceTensor(NeighIndTensor(feed), FijTensor(feed, K), K, big))

\* ------------------------------------------------- the descriptor generator
\* The species labels gen_fgpts can give an atom: those the model knows.
Species == {model_type_unique[p] : p \in DOMAIN model_type_unique}

\* What gen_fgpts can return for one neighbour slot: the descriptor vector and
\* its derivative with respect to the three displacement components.
Sample(x, v) ==
    [x  |-> [l \in 0..(len_dscrptr - 1) |-> x],
     dx |-> [c \in 0..2 |-> [l \in 0..(len_dscrptr - 1) |-> v[c]]]]

RealSamples == {Sample(1, V3(1, 0, 0)), Sample(2, V3(-1, 0, 0)), Sample(1, V3(0, 1, -1))}

\* A padded slot carries a zero descriptor and a zero derivative.
PadSample == Sample(0, VZero)

SlotChoices(n) ==
    {[ind |-> Pad, s |-> PadSample]}
        \cup {[ind |-> j, s |-> smp] : j \in 0..(n - 1), smp \in RealSamples}

\* ------------------------------------------------------------ state machine
\* The state after __init__, with the configuration the driver submits.
Init ==
    /\ big_sys \in BOOLEAN
    /\ \E n \in 1..MaxAtoms, K \in 1..MaxCutoff :
          /\ n * K <= MaxSlots
          /\ num_cutoff = K
          /\ types \in [0..(n - 1) -> Species]
          /\ \E slots \in [0..(n - 1) -> [0..(K - 1) -> SlotChoices(n)]] :
                /\ neigh_ind = [a \in 0..(n - 1) |-> [k \in 0..(K - 1) |-> slots[a][k].ind]]
                /\ fgpt = [a \in 0..(n - 1) |-> [k \in 0..(K - 1) |-> slots[a][k].s.x]]
                /\ fgpt_deriv = [a \in 0..(n - 1) |-> [k \in 0..(K - 1) |-> slots[a][k].s.dx]]
    /\ pc = "ready"
    /\ status = "none"
    /\ type_argsort = Empty
    /\ type_argsort_inv = Empty
    /\ feed_dict = Empty
    /\ Neigh_ind = Empty
    /\ F_ij = Empty
    /\ f_self = Empty
    /\ f_cross = Empty
    /\ results = Empty

\* calculate(atoms, properties, system_changes), sess.run completing.
Calculate ==
    /\ pc = "ready"
    /\ type_argsort' = TypeArgsort(types)
    /\ type_argsort_inv' = TypeArgsortInv(type_argsort', Len0(types))
    /\ feed_dict' = FeedDict(types, neigh_ind, fgpt, fgpt_deriv, num_cutoff,
                             type_argsort_inv')
    /\ Neigh_ind' = NeighIndTensor(feed_dict')
    /\ F_ij' = FijTensor(feed_dict', num_cutoff)
    /\ f_self' = FSelf(F_ij')
    /\ f_cross' = FCross(Neigh_ind', F_ij', num_cutoff, big_sys)
    /\ results' = SaveResults(feed_dict', AddTerms(f_self', f_cross'))
    /\ pc' = "done"
    /\ status' = "ok"
    /\ UNCHANGED <<big_sys, num_cutoff, types, neigh_ind, fgpt, fgpt_deriv>>

\* calculate with sess.run raising: the big_sys gather on a kernel that checks
\* its indices is handed a padded slot's index.  Nothing is saved.
CalculateRaise ==
    /\ pc = "ready"
    /\ big_sys
    /\ type_argsort' = TypeArgsort(types)
    /\ type_argsort_inv' = TypeArgsortInv(type_argsort', Len0(types))
    /\ feed_dict' = FeedDict(types, neigh_ind, fgpt, fgpt_deriv, num_cutoff,
                             type_argsort_inv')
    /\ GatherOutOfRange(NeighIndTensor(feed_dict'), num_cutoff)
    /\ pc' = "done"
    /\ status' = "raised"
    /\ UNCHANGED <<big_sys, num_cutoff, types, neigh_ind, fgpt, fgpt_deriv,
                   Neigh_ind, F_ij, f_self, f_cross, results>>

Next == Calculate \/ CalculateRaise

Spec == Init /\ [][Next]_vars

\* ------------------------------------------------ vocabulary of the claims
N == Len0(types)

Atoms == 0..(N - 1)

Slots == 0..(num_cutoff - 1)

Done == pc = "done" /\ status = "ok"

VScale(c, v) == V3(c * v[0], c * v[1], c * v[2])

\* The slots (j, k) of the table whose entry is atom i.
SlotsListing(i) == {p \in Atoms \X Slots : neigh_ind[p[1]][p[2]] = i}

\* How often atom j occurs in atom i's own row.
Occ(i, j) == Cardinality({k \in Slots : neigh_ind[i][k] = j})

RECURSIVE SumPairs(_, _)
\* The sum of table[j][k] over the pairs (j, k) of a set.
SumPairs(S, table) ==
    IF S = {} THEN VZero
    ELSE LET p == CHOOSE q \in S : TRUE
         IN  VAdd(table[p[1]][p[2]], SumPairs(S \ {p}, table))

\* The sum of F_ij[i][k] over atom i's own slots.
RowSum(i) == SumPairs({i} \X Slots, F_ij)

HasPad == \E i \in Atoms, k \in Slots : neigh_ind[i][k] = Pad

HasDup == \E i \in Atoms, j \in Atoms : Occ(i, j) >= 2

Reciprocal == \A i \in Atoms, j \in Atoms : Occ(j, i) >= 1 => Occ(i, j) >= 1

\* What get_force_tensor returns on the same tensors with the other strategy.
OtherStrategyForces == ForceTensor(Neigh_ind, F_ij, num_cutoff, ~big_sys)

\* ------------------------------------------------------------------ claims
\* C1: with big_sys=False the evaluation always completes, f_cross[i] is the
\* sum of F_ij[j,k'] over every slot (j,k') whose entry is i, each slot once
\* (two slots of one row holding i both count), and the returned force is
\* -sum_k F_ij[i,k] + f_cross[i].
C1_StrategyBExact ==
    (pc = "done" /\ ~big_sys) =>
        /\ status = "ok"
        /\ \A i \in Atoms :
              /\ f_cross[i] = SumPairs(SlotsListing(i), F_ij)
              /\ results.forces[i] = VAdd(VNeg(RowSum(i)), f_cross[i])

\* C1 witness: a completed small-system run in which one row lists an atom in
\* two slots, both with a non-zero force, and both reach the cross term.
C1_Witness ==
    /\ Done
    /\ ~big_sys
    /\ \E i \in Atoms, j \in Atoms :
          /\ Occ(j, i) = 2
          /\ \A k \in Slots : F_ij[j][k] # VZero
          /\ f_cross[i] # VZero
          /\ f_cross[i] # F_ij[j][0]

NoDupRows == \A i \in Atoms, j \in Atoms : Occ(i, j) <= 1

\* C2: whenever no row holds the same index twice and every entry is an atom
\* index, big_sys=True and big_sys=False return the same forces.
C2_StrategyEquivalence ==
    (Done /\ NoDupRows /\ ~HasPad) => results.forces = OtherStrategyForces

TwoAtomScenario ==
    /\ N = 2
    /\ num_cutoff = 1
    /\ types[0] = types[1]
    /\ neigh_ind[0][0] = 1
    /\ neigh_ind[1][0] = 0
    /\ F_ij[0][0] = V3(1, 0, 0)
    /\ F_ij[1][0] = V3(-1, 0, 0)

\* C3 as stated: in the two-atom scenario the forces are (-1,0,0) and
\* (1,0,0), and both strategies return the same values.
C3_TwoAtomScenario ==
    (Done /\ TwoAtomScenario) =>
        /\ results.forces[0] = V3(-1, 0, 0)
        /\ results.forces[1] = V3(1, 0, 0)
        /\ results.forces = OtherStrategyForces

\* C3 amended: in the two-atom scenario the forces are (-2,0,0) and (2,0,0)
\* (self term -F_ij[i,0] plus cross term F_ij[j,0]), and both strategies
\* return the same values.
C3_TwoAtomScenarioAmended ==
    (Done /\ TwoAtomScenario) =>
        /\ results.forces[0] = V3(-2, 0, 0)
        /\ results.forces[1] = V3(2, 0, 0)
        /\ results.forces = OtherStrategyForces

\* C3 witness: the scenario evaluated with big_sys=True.
C3_Witness == Done /\ TwoAtomScenario /\ big_sys /\ f_cross[0] = V3(-1, 0, 0)

\* The sum of the returned forces over all atoms.
TotalForce == SumVec(results.forces, N)

CountBig(i, j, kp) ==
    Cardinality({k \in Slots :
        neigh_ind[i][k] = j /\ ABoolBig(Neigh_ind, num_cutoff)[i][k][kp]})

\* F_ij with every row j scaled by the number of times atom i lists j.
ScaledByOcc(i) ==
    [j \in 0..(N - 1) |-> [k \in 0..(num_cutoff - 1) |-> VScale(Occ(i, j), F_ij[j][k])]]

\* The cross term of the multiplicity law: every slot (j,kp) holding i counts
\* once per occurrence of j in atom i's own row.
MultiplicityCross(i) == SumPairs(SlotsListing(i), ScaledByOcc(i))

Perms == {s \in [Atoms -> Atoms] : \A a \in Atoms, b \in Atoms : s[a] = s[b] => a = b}

\* A per-atom array moved along with its atoms: entry s[i] is the old entry i.
Moved(a, s) == [r \in 0..(N - 1) |-> a[CHOOSE i \in Atoms : s[i] = r]]

\* The neighbour table of the permuted configuration: rows moved, every atom
\* index replaced by its image, padded slots kept.
MovedTable(s) ==
    Moved([i \in Atoms |->
              [k \in Slots |->
                  IF neigh_ind[i][k] = Pad THEN Pad ELSE s[neigh_ind[i][k]]]], s)

\* self.results of the same calculator for the configuration permuted by s.
PermutedResults(s) ==
    Results(Moved(types, s), MovedTable(s), Moved(fgpt, s), Moved(fgpt_deriv, s),
            num_cutoff, big_sys)

\* C6: for every permutation s of the atom order the evaluation returns the
\* same energy, and forces and atomic_energies permuted by s (for one atom
\* atomic_energies is a scalar, and is the same scalar).
C6_OrderInvariance ==
    Done =>
        \A s \in Perms :
            LET r == PermutedResults(s)
            IN  /\ r.energy = results.energy
                /\ \A i \in Atoms : r.forces[s[i]] = results.forces[i]
                /\ IF N = 1
                   THEN r.atomic_energies = results.atomic_energies
                   ELSE \A i \in Atoms :
                            r.atomic_energies[s[i]] = results.atomic_energies[i]

\* C6 witness: two atoms of different species with different energies and
\* different non-zero forces, so that the swap moves something.
C6_Witness ==
    /\ Done
    /\ N = 2
    /\ types[0] # types[1]
    /\ results.atomic_energies[0] # results.atomic_energies[1]
    /\ results.forces[0] # results.forces[1]
    /\ results.forces[0] # VZero

\* The sub-network whose input list entry received the atoms of a species:
\* its position among the species present.
FedNet(spec) == Cardinality({t \in {types[a] : a \in Atoms} : t < spec})

\* C7: type_argsort lists every atom once, by ascending species and in the
\* original order inside a species; type_argsort_inv is its inverse; and the
\* tensors gathered with it are back in atom order: Neigh_ind is the input
\* table, and F_ij and the atomic energies of atom i are those computed from
\* atom i's own derivative and fingerprint.
C7_SpeciesRoundTrip ==
    pc = "done" =>
        /\ DOMAIN type_argsort = Atoms
        /\ {type_argsort[r] : r \in Atoms} = Atoms
        /\ \A r \in Atoms, r2 \in Atoms :
              r < r2 =>
                  \/ types[type_argsort[r]] < types[type_argsort[r2]]
                  \/ /\ types[type_argsort[r]] = types[type_argsort[r2]]
                     /\ type_argsort[r] < type_argsort[r2]
        /\ \A i \in Atoms :
              /\ type_argsort[type_argsort_inv[i]] = i
              /\ type_argsort_inv[type_argsort[i]] = i
        /\ status = "ok" =>
              /\ Neigh_ind = neigh_ind
              /\ \A i \in Atoms :
                    /\ AtomicEnergies(feed_dict)[i]
                         = OL(FedNet(types[i]),
                              [z \in 0..0 |-> ReshapeFgpt(fgpt, num_cutoff)[i]])[0]
                    /\ \A k \in Slots, c \in 0..2 :
                          F_ij[i][k][c]
                            = SumInt([l \in 0..(len_dscrptr - 1) |->
                                         fgpt_deriv[i][k][c][l] * Weight[FedNet(types[i])]],
                                     len_dscrptr)

\* C7 witness: a completed run whose atoms are not in species order, with
\* rows that tell the atoms apart.
C7_Witness ==
    /\ Done
    /\ N = 2
    /\ types[0] > types[1]
    /\ type_argsort[0] = 1
    /\ neigh_ind[0] # neigh_ind[1]
    /\ F_ij[0] # F_ij[1]

\* C8: an isolated atom whose row is all padding is evaluated without error
\* under both strategies, with f_self = 0 and f_cross = 0.
C8_IsolatedAtomPadded ==
    (pc = "done" /\ N = 1 /\ \A k \in Slots : neigh_ind[0][k] = Pad) =>
        /\ status = "ok"
        /\ f_self[0] = VZero
        /\ f_cross[0] = VZero

\* C9: every input list entry that is fed receives exactly the atoms of its
\* own species: entry p of self.X, self.X_deriv and self.Neigh_ind gets the
\* rows of the atoms whose species is type_unique[p] of the model.
C9_FeedPairsOwnSpecies ==
    pc = "done" =>
        \A p \in DOMAIN feed_dict.X :
            LET own == [a \in 0..(N - 1) |-> types[a] = model_type_unique[p]]
            IN  /\ feed_dict.X[p] = BoolIndex(ReshapeFgpt(fgpt, num_cutoff), own)
                /\ feed_dict.X_deriv[p] = BoolIndex(fgpt_deriv, own)
                /\ feed_dict.Neigh_ind[p] = BoolIndex(neigh_ind, own)

\* Every atom j that lists atom i is listed exactly once by i.
ListedOnceBack == \A i \in Atoms, j \in Atoms : Occ(j, i) >= 1 => Occ(i, j) = 1

\* C10: under big_sys=True a completed run adds F_ij[j,kp], for every slot
\* (j,kp) holding i, to f_cross[i] exactly as often as j occurs in atom i's
\* own row (not at all if i does not list j); hence its forces are those of
\* big_sys=False whenever every atom that lists i is listed exactly once by i.
C10_MultiplicityLaw ==
    (Done /\ big_sys) =>
        /\ \A i \in Atoms :
              /\ \A p \in SlotsListing(i) : CountBig(i, p[1], p[2]) = Occ(i, p[1])
              /\ f_cross[i] = MultiplicityCross(i)
              /\ results.forces[i] = VAdd(VNeg(RowSum(i)), MultiplicityCross(i))
        /\ ListedOnceBack => results.forces = OtherStrategyForces

\* C10 witness: a completed big_sys run that drops a contribution (i does not
\* list j) in one place and counts one twice in another.
C10_Witness ==
    /\ Done
    /\ big_sys
    /\ \E i \in Atoms : \E p \in SlotsListing(i) :
          Occ(i, p[1]) = 0 /\ F_ij[p[1]][p[2]] # VZero
    /\ \E i \in Atoms : \E p \in SlotsListing(i) :
          Occ(i, p[1]) = 2 /\ F_ij[p[1]][p[2]] # VZero

====
